---- MODULE Spec2Model ----
(***************************************************************************)
(* Lapking Hub: the account page (AuthForm / LoggedInAccountView), the     *)
(* admin banner page (BannersPage / BannerForm) and the stores they talk   *)
(* to: the identity provider and the document store.                       *)
(***************************************************************************)
EXTENDS Integers, Sequences, FiniteSets, TLC

(* ------------------------------------------------------------------ *)
(* Bounds of the model                                                 *)
(* ------------------------------------------------------------------ *)
MaxClock == 2
MaxBanners == 2

Tab == {"t1", "t2"}
Email == {"u1@example.com"}
Uid == {"u1"}
Role == {"customer", "admin"}
BannerId == 1..MaxBanners
Op == {"login", "signup", "google", "reset"}

UidOf(e) == CHOOSE u \in Uid : u \o "@example.com" = e
EmailOf(u) == u \o "@example.com"

(* JavaScript null / undefined and the falsy test of `a || b`. *)
Null == "<null>"
Undefined == "<undefined>"
Falsy(x) == x \in {Null, Undefined, ""}
OrElse(a, b) == IF Falsy(a) THEN b ELSE a

(* { ...base, ...add }: later keys win. *)
Spread(base, add) ==
  [k \in DOMAIN base \cup DOMAIN add |->
     IF k \in DOMAIN add THEN add[k] ELSE base[k]]

(* additionalData?.k *)
Field(rec, k) == IF k \in DOMAIN rec THEN rec[k] ELSE Undefined

VARIABLES
  auth, firestore,          \* useAuth() / useFirestore() returned a service
  credentials,              \* identity provider: email -> password
  users,                    \* document store, collection 'users'
  clock,                    \* server time used by serverTimestamp()
  session,                  \* per tab: the signed-in uid (useUser().user)
  route,                    \* per tab: router location
  activeTab,                \* AuthForm.activeTab
  loading,                  \* AuthForm.loading
  showForgotPassword,       \* AuthForm.showForgotPassword
  toast,                    \* per tab: the last notification emitted
  lastOp,                   \* per tab: the handler invoked last
  notes,                    \* per tab: notifications that invocation emitted
  loginErrors, signupValues, signupErrors, forgotErrors,  \* form state
  phase,                    \* per tab and operation: where its handler is
  data,                     \* per tab and operation: the handler's `data`
  user,                     \* per tab and operation: userCredential.user
  bannerStore,              \* document store, collection 'banners'
  banners, isLoading,       \* BannersPage: useCollection(bannersQuery)
  addOpen,                  \* BannersPage.open (the add dialog)
  addLoading,               \* BannerForm.loading of the add dialog
  addErrors,                \* BannerForm formState.errors of the add dialog
  addPhase, addData,        \* onSubmit of the add form: position and `data`
  adminToast,               \* the last notification of the banner page
  adminLastOp, adminNotes,  \* the banner handler that ended last, and the
                            \* notifications it emitted
  rowOpen,                  \* per banner: BannerRow.open (the edit dialog)
  editValues,               \* per banner: values held by the edit form
  editLoading,              \* per banner: BannerForm.loading of the edit form
  editPhase, editData,      \* per banner: onSubmit of the edit form
  confirmOpen,              \* per banner: the delete confirmation is open
  deletePhase,              \* per banner: position of handleDelete
  flowPhase,                \* suggestCompatibleProducts: idle/call/resolved/rejected
  flowInput,                \* the `input` of the invocation
  flowPrompt,               \* the rendered prompt sent to the model
  modelCalls,               \* model calls made by the invocation
  flowOutput,               \* what the model call answered
  flowResult                \* what the invocation returned or threw

svcVars == <<auth, firestore>>
storeVars == <<users, clock>>
formVars == <<loginErrors, signupValues, signupErrors, forgotErrors>>
uiVars == <<session, route, activeTab, loading, showForgotPassword, toast,
            lastOp, notes>>
asyncVars == <<phase, data, user>>
accountVars == <<svcVars, credentials, storeVars, formVars, uiVars, asyncVars>>
addVars == <<addOpen, addLoading, addErrors, addPhase, addData>>
noteVars == <<adminToast, adminLastOp, adminNotes>>
editVars == <<rowOpen, editValues, editLoading, editPhase, editData>>
deleteVars == <<confirmOpen, deletePhase>>
bannerVars == <<bannerStore, banners, isLoading, addVars, noteVars, editVars,
                deleteVars>>
flowVars == <<flowPhase, flowInput, flowPrompt, modelCalls, flowOutput,
              flowResult>>
\* What the account page never touches.
otherVars == <<bannerVars, flowVars>>
\* What the banner page never touches.
accountOnlyVars == <<auth, credentials, users, formVars, uiVars, asyncVars,
                     flowVars>>
vars == <<accountVars, bannerVars, flowVars>>

(* ------------------------------------------------------------------ *)
(* Values                                                              *)
(* ------------------------------------------------------------------ *)
NoPassword == "<no account>"
NoUser == "<no user>"
NoData == <<>>
Absent == [exists |-> FALSE]
Doc(fields) == [exists |-> TRUE, fields |-> fields]

NoToast == [variant |-> "none", title |-> "", description |-> ""]
Toast(variant, title, description) ==
  [variant |-> variant, title |-> title, description |-> description]

AuthError(code) ==
  [code |-> code, message |-> "Firebase: Error (" \o code \o ")."]
StoreError ==
  [code |-> "permission-denied",
   message |-> "Missing or insufficient permissions."]

DefaultSignupValues ==
  [name |-> "", email |-> "", phone |-> "", password |-> "",
   confirmPassword |-> "", agreeToTerms |-> FALSE]

WellFormedEmail(e) == e \in Email

(* ------------------------------------------------------------------ *)
(* Schemas: the set of field paths that carry a validation error       *)
(* ------------------------------------------------------------------ *)
loginSchema(v) ==
  {f \in {"email"} : ~WellFormedEmail(v.email)}
  \cup {f \in {"password"} : Len(v.password) < 1}

\* Mutant: the object-level refine on the confirmation is missing.
signupSchema_noConfirm(v) ==
  {f \in {"name"} : Len(v.name) < 2}
  \cup {f \in {"email"} : ~WellFormedEmail(v.email)}
  \cup {f \in {"phone"} : Len(v.phone) < 10}
  \cup {f \in {"password"} : Len(v.password) < 6}
  \cup {f \in {"agreeToTerms"} : v.agreeToTerms # TRUE}

\* Mutant: agreeToTerms is a plain z.boolean() without its refine.
signupSchema_noTerms(v) ==
  {f \in {"name"} : Len(v.name) < 2}
  \cup {f \in {"email"} : ~WellFormedEmail(v.email)}
  \cup {f \in {"phone"} : Len(v.phone) < 10}
  \cup {f \in {"password"} : Len(v.password) < 6}
  \cup {f \in {"confirmPassword"} : v.password # v.confirmPassword}

\* Every field of the form is a string or a boolean (defaultValues), so
\* no field aborts the object parse and the object-level refine always runs.
signupSchema(v) ==
  {f \in {"name"} : Len(v.name) < 2}
  \cup {f \in {"email"} : ~WellFormedEmail(v.email)}
  \cup {f \in {"phone"} : Len(v.phone) < 10}
  \cup {f \in {"password"} : Len(v.password) < 6}
  \cup {f \in {"agreeToTerms"} : v.agreeToTerms # TRUE}
  \cup {f \in {"confirmPassword"} : v.password # v.confirmPassword}

forgotPasswordSchema(v) ==
  {f \in {"email"} : ~WellFormedEmail(v.email)}

(* ------------------------------------------------------------------ *)
(* Init                                                                *)
(* ------------------------------------------------------------------ *)
NoCalls == [op \in Op |-> "none"]

Init ==
  /\ auth \in BOOLEAN
  /\ firestore \in BOOLEAN
  /\ credentials = [e \in Email |-> NoPassword]
  /\ users = [u \in Uid |-> Absent]
  /\ clock = 0
  /\ session = [t \in Tab |-> NoUser]
  /\ route = [t \in Tab |-> "/account"]
  /\ activeTab = [t \in Tab |-> "login"]
  /\ loading = [t \in Tab |-> FALSE]
  /\ showForgotPassword = [t \in Tab |-> FALSE]
  /\ toast = [t \in Tab |-> NoToast]
  /\ lastOp = [t \in Tab |-> "none"]
  /\ notes = [t \in Tab |-> 0]
  /\ loginErrors = [t \in Tab |-> {}]
  /\ signupValues = [t \in Tab |-> DefaultSignupValues]
  /\ signupErrors = [t \in Tab |-> {}]
  /\ forgotErrors = [t \in Tab |-> {}]
  /\ phase = [t \in Tab |-> NoCalls]
  /\ data = [t \in Tab |-> [op \in Op |-> NoData]]
  /\ user = [t \in Tab |-> [op \in Op |-> NoData]]
  /\ bannerStore = [id \in BannerId |-> Absent]
  /\ banners = <<>>
  /\ isLoading = TRUE
  /\ addOpen = FALSE
  /\ addLoading = FALSE
  /\ addErrors = {}
  /\ addPhase = "none"
  /\ addData = NoData
  /\ adminToast = NoToast
  /\ adminLastOp = "none"
  /\ adminNotes = 0
  /\ rowOpen = [id \in BannerId |-> FALSE]
  /\ editValues = [id \in BannerId |-> NoData]
  /\ editLoading = [id \in BannerId |-> FALSE]
  /\ editPhase = [id \in BannerId |-> "none"]
  /\ editData = [id \in BannerId |-> NoData]
  /\ confirmOpen = [id \in BannerId |-> FALSE]
  /\ deletePhase = [id \in BannerId |-> "none"]
  /\ flowPhase = "idle"
  /\ flowInput = NoData
  /\ flowPrompt = NoData
  /\ modelCalls = 0
  /\ flowOutput = NoData
  /\ flowResult = NoData

(* ------------------------------------------------------------------ *)
(* Rendering                                                           *)
(* ------------------------------------------------------------------ *)
\* AccountPage renders AuthForm when there is no user.
AuthFormMounted(t) == route[t] = "/account" /\ session[t] = NoUser

\* Mutant: the submit controls are not disabled while loading.
SubmitDisabled_never(t) == FALSE

\* disabled={loading} on the four submit controls.
SubmitDisabled(t) == loading[t]

Outstanding(t) == {op \in Op : phase[t][op] # "none"}

(* A handler is invoked; it has emitted n notifications so far. *)
Invoked(t, op, n) ==
  /\ lastOp' = [lastOp EXCEPT ![t] = op]
  /\ notes' = [notes EXCEPT ![t] = n]

(* toast(...) inside a handler that is already running *)
Emit(t, x) ==
  /\ toast' = [toast EXCEPT ![t] = x]
  /\ notes' = [notes EXCEPT ![t] = @ + 1]
  /\ lastOp' = lastOp

(* Start and end of a handler: setLoading(true) ... finally setLoading(false) *)
Begin(t, op, d) ==
  /\ Invoked(t, op, 0)
  /\ loading' = [loading EXCEPT ![t] = TRUE]
  /\ phase' = [phase EXCEPT ![t][op] = "call"]
  /\ data' = [data EXCEPT ![t][op] = d]
  /\ user' = user

\* Mutant: the finally block does not clear the flag.
Finally_keepLoading(t, op) ==
  /\ loading' = loading
  /\ phase' = [phase EXCEPT ![t][op] = "none"]
  /\ data' = [data EXCEPT ![t][op] = NoData]
  /\ user' = [user EXCEPT ![t][op] = NoData]

Finally(t, op) ==
  /\ loading' = [loading EXCEPT ![t] = FALSE]
  /\ phase' = [phase EXCEPT ![t][op] = "none"]
  /\ data' = [data EXCEPT ![t][op] = NoData]
  /\ user' = [user EXCEPT ![t][op] = NoData]

(* ------------------------------------------------------------------ *)
(* Conditional profile write                                           *)
(* ------------------------------------------------------------------ *)
DefaultRole == "customer"

\* Mutant: the existence test is lost and the write is unconditional.
DocExists_never(snapshot) == FALSE

\* userDoc.exists()
DocExists(snapshot) == snapshot.exists

\* The object handed to setDoc; serverTimestamp() resolves to `now`.
NewUserDoc(u, additionalData, now) ==
  Spread([uid |-> u.uid,
          email |-> u.email,
          name |-> OrElse(u.displayName, Field(additionalData, "name")),
          phone |-> OrElse(OrElse(u.phoneNumber,
                                  Field(additionalData, "phone")), ""),
          role |-> DefaultRole,
          createdAt |-> now],
         additionalData)

\* Mutant: the signup caller passes a role along with name and phone.
SignupAdditionalData_withRole(d) ==
  [name |-> d.name, phone |-> d.phone, role |-> "admin"]

\* handleUserDoc(user, { name: data.name, phone: data.phone })
SignupAdditionalData(d) == [name |-> d.name, phone |-> d.phone]

\* The second argument of handleUserDoc in each caller.
AdditionalData(t, op) ==
  IF op = "signup" THEN SignupAdditionalData(data[t]["signup"]) ELSE <<>>

Tick == IF clock < MaxClock THEN clock + 1 ELSE clock

(* ------------------------------------------------------------------ *)
(* Notifications of signup, federated sign-in and reset                *)
(* ------------------------------------------------------------------ *)
SuccessToast(op) ==
  IF op = "signup"
    THEN Toast("default", "Successfully signed up!", Undefined)
    ELSE Toast("default", "Successfully signed in with Google!", Undefined)

SignupFailedToast(err) ==
  Toast("destructive", "Sign-up Failed",
        IF err.code = "auth/email-already-in-use"
          THEN "An account with this email already exists."
          ELSE err.message)

GoogleFailedToast(err) ==
  Toast("destructive", "Google Sign-in Failed", err.message)

FailedToast(op, err) ==
  IF op = "signup" THEN SignupFailedToast(err) ELSE GoogleFailedToast(err)

ResetSentToast ==
  Toast("default", "Password Reset Email Sent",
        "Check your inbox for a link to reset your password.")

\* Mutant: every reset failure surfaces the raw provider message.
ResetFailedToast_raw(err) ==
  Toast("destructive", "Error", err.message)

ResetFailedToast(err) ==
  Toast("destructive", "Error",
        IF err.code = "auth/user-not-found"
          THEN "No account found with this email."
          ELSE err.message)

NotInitializedToast ==
  Toast("destructive", "Error", "Firebase not initialized.")

(* ------------------------------------------------------------------ *)
(* End of the sign-in handlers                                         *)
(* ------------------------------------------------------------------ *)
\* toast(success); router.push('/'); finally setLoading(false).  The page
\* is left, so the AuthForm instance and its state are discarded.
SignedIn(t, op, successToast) ==
  /\ Emit(t, successToast)
  /\ route' = [route EXCEPT ![t] = "/"]
  /\ Finally(t, op)
  /\ activeTab' = [activeTab EXCEPT ![t] = "login"]
  /\ showForgotPassword' = [showForgotPassword EXCEPT ![t] = FALSE]
  /\ loginErrors' = [loginErrors EXCEPT ![t] = {}]
  /\ signupValues' = [signupValues EXCEPT ![t] = DefaultSignupValues]
  /\ signupErrors' = [signupErrors EXCEPT ![t] = {}]
  /\ forgotErrors' = [forgotErrors EXCEPT ![t] = {}]

\* catch: toast(failure); finally setLoading(false).  No navigation.
Failed(t, op, failureToast) ==
  /\ Emit(t, failureToast)
  /\ Finally(t, op)
  /\ UNCHANGED <<route, activeTab, showForgotPassword, formVars>>

(* ------------------------------------------------------------------ *)
(* Login                                                               *)
(* ------------------------------------------------------------------ *)
LoginSuccessToast == Toast("default", "Successfully logged in!", Undefined)

\* Mutant: the login failure is reported like the signup failure, by cause.
LoginFailedToast_byCause(err) ==
  Toast("destructive", "Login Failed",
        IF err.code = "auth/user-not-found"
          THEN "No account found with this email."
          ELSE err.message)

LoginFailedToast(err) ==
  Toast("destructive", "Login Failed", "Invalid email or password.")

\* loginForm.handleSubmit: the resolver rejects the values.
LoginRejected(t, v) ==
  /\ AuthFormMounted(t) /\ activeTab[t] = "login" /\ ~SubmitDisabled(t)
  /\ phase[t]["login"] = "none"
  /\ loginSchema(v) # {}
  /\ loginErrors' = [loginErrors EXCEPT ![t] = loginSchema(v)]
  /\ UNCHANGED <<otherVars, svcVars, credentials, storeVars, uiVars, asyncVars,
                 signupValues, signupErrors, forgotErrors>>

onLoginSubmit(t, v) ==
  /\ AuthFormMounted(t) /\ activeTab[t] = "login" /\ ~SubmitDisabled(t)
  /\ phase[t]["login"] = "none"
  /\ loginSchema(v) = {}
  /\ loginErrors' = [loginErrors EXCEPT ![t] = {}]
  /\ IF auth
       THEN Begin(t, "login", v)
       ELSE /\ Invoked(t, "login", 0)         \* return setLoading(false)
            /\ UNCHANGED <<loading, asyncVars>>
  /\ UNCHANGED <<otherVars, svcVars, credentials, storeVars, session, route, activeTab,
                 showForgotPassword, toast, signupValues, signupErrors,
                 forgotErrors>>

\* What signInWithEmailAndPassword can answer.
SignInOutcomes(d) ==
  {AuthError("auth/network-request-failed")}
  \cup (IF credentials[d.email] = NoPassword
          THEN {AuthError("auth/user-not-found")}
          ELSE IF credentials[d.email] # d.password
                 THEN {AuthError("auth/wrong-password")}
                 ELSE {[code |-> "ok", message |-> ""]})

LoginReturn(t) ==
  /\ phase[t]["login"] = "call"
  /\ \E r \in SignInOutcomes(data[t]["login"]) :
       IF r.code = "ok"
         THEN /\ session' = [session EXCEPT ![t] =
                               UidOf(data[t]["login"].email)]
              /\ SignedIn(t, "login", LoginSuccessToast)
         ELSE /\ Failed(t, "login", LoginFailedToast(r))
              /\ UNCHANGED session
  /\ UNCHANGED <<otherVars, svcVars, credentials, storeVars>>

(* ------------------------------------------------------------------ *)
(* Signup                                                              *)
(* ------------------------------------------------------------------ *)
SignupRejected(t, v) ==
  /\ AuthFormMounted(t) /\ activeTab[t] = "signup" /\ ~SubmitDisabled(t)
  /\ phase[t]["signup"] = "none"
  /\ signupSchema(v) # {}
  /\ signupValues' = [signupValues EXCEPT ![t] = v]
  /\ signupErrors' = [signupErrors EXCEPT ![t] = signupSchema(v)]
  /\ UNCHANGED <<otherVars, svcVars, credentials, storeVars, uiVars, asyncVars,
                 loginErrors, forgotErrors>>

onSignupSubmit(t, v) ==
  /\ AuthFormMounted(t) /\ activeTab[t] = "signup" /\ ~SubmitDisabled(t)
  /\ phase[t]["signup"] = "none"
  /\ signupSchema(v) = {}
  /\ signupValues' = [signupValues EXCEPT ![t] = v]
  /\ signupErrors' = [signupErrors EXCEPT ![t] = {}]
  /\ IF auth
       THEN Begin(t, "signup", v)
       ELSE /\ Invoked(t, "signup", 0)
            /\ UNCHANGED <<loading, asyncVars>>
  /\ UNCHANGED <<otherVars, svcVars, credentials, storeVars, session, route, activeTab,
                 showForgotPassword, toast, loginErrors, forgotErrors>>

PasswordUser(e) ==
  [uid |-> UidOf(e), email |-> e, displayName |-> Null, phoneNumber |-> Null]

\* What createUserWithEmailAndPassword can answer.
CreateUserOutcomes(d) ==
  {AuthError("auth/network-request-failed")}
  \cup (IF credentials[d.email] # NoPassword
          THEN {AuthError("auth/email-already-in-use")}
          ELSE {[code |-> "ok", message |-> ""]})

\* Mutant: handleUserDoc is started but not awaited.
SignupCreateReturn_noAwait(t) ==
  /\ phase[t]["signup"] = "call"
  /\ \E r \in CreateUserOutcomes(data[t]["signup"]) :
       LET d == data[t]["signup"] IN
       IF r.code = "ok"
         THEN /\ credentials' = [credentials EXCEPT ![d.email] = d.password]
              /\ session' = [session EXCEPT ![t] = UidOf(d.email)]
              /\ SignedIn(t, "signup", SuccessToast("signup"))
         ELSE /\ Failed(t, "signup", SignupFailedToast(r))
              /\ UNCHANGED <<credentials, session>>
  /\ UNCHANGED <<otherVars, svcVars, storeVars>>

SignupCreateReturn(t) ==
  /\ phase[t]["signup"] = "call"
  /\ \E r \in CreateUserOutcomes(data[t]["signup"]) :
       LET d == data[t]["signup"] IN
       IF r.code = "ok"
         THEN /\ credentials' = [credentials EXCEPT ![d.email] = d.password]
              /\ session' = [session EXCEPT ![t] = UidOf(d.email)]
              /\ IF firestore
                   THEN /\ phase' = [phase EXCEPT ![t]["signup"] = "getDoc"]
                        /\ user' = [user EXCEPT ![t]["signup"] =
                                      PasswordUser(d.email)]
                        /\ UNCHANGED <<data, loading, route, toast, activeTab,
                                       showForgotPassword, formVars,
                                       lastOp, notes>>
                   ELSE SignedIn(t, "signup", SuccessToast("signup"))
         ELSE /\ Failed(t, "signup", SignupFailedToast(r))
              /\ UNCHANGED <<credentials, session>>
  /\ UNCHANGED <<otherVars, svcVars, storeVars>>

(* ------------------------------------------------------------------ *)
(* Federated sign-in                                                   *)
(* ------------------------------------------------------------------ *)
handleGoogleSignIn(t) ==
  /\ AuthFormMounted(t) /\ activeTab[t] = "login" /\ ~SubmitDisabled(t)
  /\ phase[t]["google"] = "none"
  /\ IF auth
       THEN Begin(t, "google", NoData)
       ELSE /\ Invoked(t, "google", 0)
            /\ UNCHANGED <<loading, asyncVars>>
  /\ UNCHANGED <<otherVars, svcVars, credentials, storeVars, formVars, session, route,
                 activeTab, showForgotPassword, toast>>

GoogleUser(e) ==
  [uid |-> UidOf(e), email |-> e, displayName |-> "Google User",
   phoneNumber |-> Null]

GooglePopupReturn(t) ==
  /\ phase[t]["google"] = "call"
  /\ \/ \E e \in Email :
          /\ session' = [session EXCEPT ![t] = UidOf(e)]
          /\ IF firestore
               THEN /\ phase' = [phase EXCEPT ![t]["google"] = "getDoc"]
                    /\ user' = [user EXCEPT ![t]["google"] = GoogleUser(e)]
                    /\ UNCHANGED <<data, loading, route, toast, activeTab,
                                   showForgotPassword, formVars,
                                   lastOp, notes>>
               ELSE SignedIn(t, "google", SuccessToast("google"))
     \/ /\ Failed(t, "google",
                  GoogleFailedToast(AuthError("auth/popup-closed-by-user")))
        /\ UNCHANGED session
  /\ UNCHANGED <<otherVars, svcVars, credentials, storeVars>>

(* ------------------------------------------------------------------ *)
(* handleUserDoc: getDoc, then setDoc when the document is absent      *)
(* ------------------------------------------------------------------ *)
UserDocGetReturn(t, op) ==
  /\ phase[t][op] = "getDoc"
  /\ \/ LET userDoc == users[user[t][op].uid] IN
        IF DocExists(userDoc)
          THEN SignedIn(t, op, SuccessToast(op))
          ELSE /\ phase' = [phase EXCEPT ![t][op] = "setDoc"]
               /\ UNCHANGED <<data, user, loading, route, toast, activeTab,
                              showForgotPassword, formVars, lastOp, notes>>
     \/ Failed(t, op, FailedToast(op, StoreError))
  /\ UNCHANGED <<otherVars, svcVars, credentials, storeVars, session>>

UserDocSetReturn(t, op) ==
  /\ phase[t][op] = "setDoc"
  /\ \/ /\ users' = [users EXCEPT ![user[t][op].uid] =
                       Doc(NewUserDoc(user[t][op], AdditionalData(t, op),
                                      clock))]
        /\ clock' = Tick
        /\ SignedIn(t, op, SuccessToast(op))
     \/ /\ Failed(t, op, FailedToast(op, StoreError))
        /\ UNCHANGED storeVars
  /\ UNCHANGED <<otherVars, svcVars, credentials, session>>

(* ------------------------------------------------------------------ *)
(* Password reset                                                      *)
(* ------------------------------------------------------------------ *)
\* onClick={() => setShowForgotPassword(true)}; the link is not disabled.
OpenForgotPassword(t) ==
  /\ AuthFormMounted(t) /\ activeTab[t] = "login"
  /\ ~showForgotPassword[t]
  /\ showForgotPassword' = [showForgotPassword EXCEPT ![t] = TRUE]
  /\ UNCHANGED <<otherVars, svcVars, credentials, storeVars, formVars, asyncVars,
                 session, route, activeTab, loading, toast, lastOp, notes>>

\* onOpenChange={setShowForgotPassword} / AlertDialogCancel
CloseForgotPassword(t) ==
  /\ AuthFormMounted(t)
  /\ showForgotPassword[t]
  /\ showForgotPassword' = [showForgotPassword EXCEPT ![t] = FALSE]
  /\ UNCHANGED <<otherVars, svcVars, credentials, storeVars, formVars, asyncVars,
                 session, route, activeTab, loading, toast, lastOp, notes>>

ForgotRejected(t, v) ==
  /\ AuthFormMounted(t) /\ showForgotPassword[t] /\ ~SubmitDisabled(t)
  /\ phase[t]["reset"] = "none"
  /\ forgotPasswordSchema(v) # {}
  /\ forgotErrors' = [forgotErrors EXCEPT ![t] = forgotPasswordSchema(v)]
  /\ UNCHANGED <<otherVars, svcVars, credentials, storeVars, uiVars, asyncVars,
                 loginErrors, signupValues, signupErrors>>

handleForgotPassword(t, v) ==
  /\ AuthFormMounted(t) /\ showForgotPassword[t] /\ ~SubmitDisabled(t)
  /\ phase[t]["reset"] = "none"
  /\ forgotPasswordSchema(v) = {}
  /\ forgotErrors' = [forgotErrors EXCEPT ![t] = {}]
  /\ IF auth
       THEN /\ Begin(t, "reset", v)
            /\ UNCHANGED toast
       ELSE /\ toast' = [toast EXCEPT ![t] = NotInitializedToast]
            /\ Invoked(t, "reset", 1)
            /\ UNCHANGED <<loading, asyncVars>>
  /\ UNCHANGED <<otherVars, svcVars, credentials, storeVars, session, route, activeTab,
                 showForgotPassword, loginErrors, signupValues, signupErrors>>

\* What sendPasswordResetEmail can answer.
ResetOutcomes(d) ==
  {AuthError("auth/network-request-failed")}
  \cup (IF credentials[d.email] = NoPassword
          THEN {AuthError("auth/user-not-found")}
          ELSE {[code |-> "ok", message |-> ""]})

ResetReturn(t) ==
  /\ phase[t]["reset"] = "call"
  /\ \E r \in ResetOutcomes(data[t]["reset"]) :
       IF r.code = "ok"
         THEN /\ Emit(t, ResetSentToast)
              /\ showForgotPassword' =
                   [showForgotPassword EXCEPT ![t] = FALSE]
         ELSE /\ Emit(t, ResetFailedToast(r))
              /\ UNCHANGED showForgotPassword
  /\ Finally(t, "reset")
  /\ UNCHANGED <<otherVars, svcVars, credentials, storeVars, formVars, session, route,
                 activeTab>>

(* ------------------------------------------------------------------ *)
(* Tabs of the form, navigation, logout                                *)
(* ------------------------------------------------------------------ *)
\* <Tabs value={activeTab} onValueChange={setActiveTab}>
SetActiveTab(t, tab) ==
  /\ AuthFormMounted(t)
  /\ activeTab[t] # tab
  /\ activeTab' = [activeTab EXCEPT ![t] = tab]
  /\ UNCHANGED <<otherVars, svcVars, credentials, storeVars, formVars, asyncVars,
                 session, route, loading, showForgotPassword, toast, lastOp,
                 notes>>

\* The user comes back to the account page: AccountPage mounts, and with
\* it a fresh AuthForm when there is no user.
OpenAccountPage(t) ==
  /\ route[t] = "/"
  /\ Outstanding(t) = {}
  /\ route' = [route EXCEPT ![t] = "/account"]
  /\ activeTab' = [activeTab EXCEPT ![t] = "login"]
  /\ loading' = [loading EXCEPT ![t] = FALSE]
  /\ showForgotPassword' = [showForgotPassword EXCEPT ![t] = FALSE]
  /\ loginErrors' = [loginErrors EXCEPT ![t] = {}]
  /\ signupValues' = [signupValues EXCEPT ![t] = DefaultSignupValues]
  /\ signupErrors' = [signupErrors EXCEPT ![t] = {}]
  /\ forgotErrors' = [forgotErrors EXCEPT ![t] = {}]
  /\ UNCHANGED <<otherVars, svcVars, credentials, storeVars, asyncVars, session, toast,
                 lastOp, notes>>

LoggedOutToast ==
  Toast("default", "Logged Out", "You've been successfully signed out.")

\* LoggedInAccountView; tracked once the tab's handlers have finished.
\* if (!auth) return; await signOut(auth); toast; push('/').  There is no
\* try/catch: when signOut rejects, the two statements after it never run.
handleLogout(t) ==
  /\ route[t] = "/account" /\ session[t] # NoUser
  /\ Outstanding(t) = {}
  /\ \/ /\ auth
        /\ session' = [session EXCEPT ![t] = NoUser]
        /\ toast' = [toast EXCEPT ![t] = LoggedOutToast]
        /\ Invoked(t, "logout", 1)
        /\ route' = [route EXCEPT ![t] = "/"]
     \/ /\ Invoked(t, "logout", 0)
        /\ UNCHANGED <<session, toast, route>>
  /\ UNCHANGED <<otherVars, svcVars, credentials, storeVars, formVars, asyncVars,
                 activeTab, loading, showForgotPassword>>

(* ------------------------------------------------------------------ *)
(* Writers outside this code: an administrator creates a profile or    *)
(* assigns a role                                                      *)
(* ------------------------------------------------------------------ *)
ExternalCreateProfile(u, r) ==
  /\ ~users[u].exists
  /\ users' = [users EXCEPT ![u] =
                 Doc([uid |-> u, email |-> EmailOf(u), name |-> "Provisioned",
                      phone |-> "", role |-> r, createdAt |-> clock])]
  /\ clock' = Tick
  /\ UNCHANGED <<otherVars, svcVars, credentials, formVars, uiVars, asyncVars>>

ExternalAssignRole(u, r) ==
  /\ users[u].exists
  /\ users[u].fields.role # r
  /\ users' = [users EXCEPT ![u].fields.role = r]
  /\ UNCHANGED <<otherVars, svcVars, credentials, clock, formVars, uiVars, asyncVars>>

(* ------------------------------------------------------------------ *)
(* Inputs                                                              *)
(* ------------------------------------------------------------------ *)
LoginInputs ==
  [email : {"not-an-email"} \cup Email,
   password : {"", "secret1", "wrongpass"}]

\* Every combination of a failing and a passing value of each field.
SignupInputs ==
  [name : {"J", "Jo"},
   email : {"not-an-email", "u1@example.com"},
   phone : {"12345", "9876543210"},
   password : {"abc", "secret1"},
   confirmPassword : {"abc", "secret1"},
   agreeToTerms : BOOLEAN]

\* The submissions used next to the other operations.
SignupSample ==
  [name : {"Jo", "Ann"},
   email : Email,
   phone : {"9876543210"},
   password : {"secret1"},
   confirmPassword : {"secret1", "abc"},
   agreeToTerms : {TRUE}]

ForgotInputs == [email : {"not-an-email"} \cup Email]

(* ------------------------------------------------------------------ *)
(* Specifications                                                      *)
(* ------------------------------------------------------------------ *)
LoginStep(t) ==
  \/ \E v \in LoginInputs : LoginRejected(t, v)
  \/ \E v \in LoginInputs : onLoginSubmit(t, v)
  \/ LoginReturn(t)

SignupStep(t, signupInputs) ==
  \/ \E v \in signupInputs : SignupRejected(t, v)
  \/ \E v \in signupInputs : onSignupSubmit(t, v)
  \/ SignupCreateReturn(t)
  \/ UserDocGetReturn(t, "signup")
  \/ UserDocSetReturn(t, "signup")

GoogleStep(t) ==
  \/ handleGoogleSignIn(t)
  \/ GooglePopupReturn(t)
  \/ UserDocGetReturn(t, "google")
  \/ UserDocSetReturn(t, "google")

ResetStep(t) ==
  \/ OpenForgotPassword(t)
  \/ CloseForgotPassword(t)
  \/ \E v \in ForgotInputs : ForgotRejected(t, v)
  \/ \E v \in ForgotInputs : handleForgotPassword(t, v)
  \/ ResetReturn(t)

PageStep(t) ==
  \/ \E tab \in {"login", "signup"} : SetActiveTab(t, tab)
  \/ OpenAccountPage(t)
  \/ handleLogout(t)

External ==
  \/ \E u \in Uid, r \in Role : ExternalCreateProfile(u, r)
  \/ \E u \in Uid, r \in Role : ExternalAssignRole(u, r)

\* One account page with its four operations, next to the outside writers.
Next ==
  \/ LoginStep("t1")
  \/ SignupStep("t1", SignupSample)
  \/ GoogleStep("t1")
  \/ ResetStep("t1")
  \/ PageStep("t1")
  \/ External

Spec == Init /\ [][Next]_vars

\* The signup form alone, over every combination of its fields.
SignupNext ==
  \/ SignupStep("t1", SignupInputs)
  \/ PageStep("t1")

SignupSpec == Init /\ [][SignupNext]_vars

\* Two tabs signing in at once, next to the outside writers.
RaceNext ==
  \/ \E t \in Tab : SignupStep(t, SignupSample)
  \/ \E t \in Tab : GoogleStep(t)
  \/ \E t \in Tab : PageStep(t)
  \/ External

RaceSpec == Init /\ [][RaceNext]_vars

(* ================================================================== *)
(* Banner admin page                                                   *)
(* ================================================================== *)
WellFormedUrl(x) == x \in {"https://x.com/a.png"}

\* z.coerce.number(): Number(raw) of what the number input holds.
CoerceNumber(raw) ==
  CASE raw = ""    -> [kind |-> "int", value |-> 0]
    [] raw = "0"   -> [kind |-> "int", value |-> 0]
    [] raw = "1"   -> [kind |-> "int", value |-> 1]
    [] raw = "2"   -> [kind |-> "int", value |-> 2]
    [] raw = "1.5" -> [kind |-> "float", value |-> 1]
    [] OTHER       -> [kind |-> "nan", value |-> 0]

\* The field paths that carry a validation error.
bannerSchema(v) ==
  {f \in {"title"} : Len(v.title) < 1}
  \cup {f \in {"imageUrl"} : ~WellFormedUrl(v.imageUrl)}
  \cup {f \in {"sortOrder"} : CoerceNumber(v.sortOrder).kind # "int"}

\* Mutant: the schema passes unknown keys through.
BannerFormData_passthrough(v) ==
  Spread(v, [sortOrder |-> CoerceNumber(v.sortOrder).value])

\* The output of the schema for values it accepts: `data` of onSubmit.
\* z.object drops the keys the schema does not name.
BannerFormData(v) ==
  [title |-> v.title, subtitle |-> v.subtitle, imageUrl |-> v.imageUrl,
   ctaLabel |-> v.ctaLabel, ctaLink |-> v.ctaLink, isActive |-> v.isActive,
   sortOrder |-> CoerceNumber(v.sortOrder).value]

\* Mutant: the record is written without its timestamps.
NewBannerDoc_noTimestamps(d, now) == d

\* { ...data, createdAt: serverTimestamp(), updatedAt: serverTimestamp() }
NewBannerDoc(d, now) ==
  Spread(d, [createdAt |-> now, updatedAt |-> now])

\* Mutant: the second orderBy is ascending.
BannerBefore_createdAsc(a, b) ==
  \/ a.sortOrder < b.sortOrder
  \/ /\ a.sortOrder = b.sortOrder
     /\ \/ a.createdAt < b.createdAt
        \/ a.createdAt = b.createdAt /\ a.id > b.id

\* orderBy('sortOrder'), orderBy('createdAt', 'desc'); documents that tie on
\* both follow the document id in the direction of the last orderBy.
BannerBefore(a, b) ==
  \/ a.sortOrder < b.sortOrder
  \/ /\ a.sortOrder = b.sortOrder
     /\ \/ a.createdAt > b.createdAt
        \/ a.createdAt = b.createdAt /\ a.id > b.id

StoredIds == {id \in BannerId : bannerStore[id].exists}

Row(id) == Spread([id |-> id], bannerStore[id].fields)

\* The result of bannersQuery on the store.
bannersQuery ==
  CHOOSE q \in [1..Cardinality(StoredIds) -> StoredIds] :
    /\ \A i, j \in DOMAIN q : i # j => q[i] # q[j]
    /\ \A i, j \in DOMAIN q :
         i < j => BannerBefore(Row(q[i]), Row(q[j]))

\* The banners of a snapshot that have a BannerRow.
RowIds(rows) == {rows[i].id : i \in DOMAIN rows}
RowOf(rows, id) == rows[CHOOSE i \in DOMAIN rows : rows[i].id = id]

\* What the number input of the form shows for a stored sortOrder.
NumberToInput(n) ==
  CASE n = 0 -> "0"
    [] n = 1 -> "1"
    [] n = 2 -> "2"
    [] OTHER -> "abc"

\* defaultValues: banner / reset(banner): the form holds the record's fields.
FormValues(banner) ==
  [banner EXCEPT !.sortOrder = NumberToInput(banner.sortOrder)]

\* useCollection builds the rows of each snapshot anew: a row's `banner` is
\* another object after every snapshot, whether its fields changed or not.
BannerRenewed(id, rows) == TRUE

\* useEffect(() => reset(banner), [banner, reset]) of a mounted edit form.
ResetOnSnapshot(id, rows) ==
  IF BannerRenewed(id, rows) THEN FormValues(RowOf(rows, id))
                             ELSE editValues[id]

\* useCollection: the subscription delivers the current result.  Rows of
\* banners that are gone unmount; mounted edit forms get the new `banner`.
BannersSnapshot ==
  /\ firestore
  /\ \E q \in {bannersQuery} : \E rows \in {[i \in DOMAIN q |-> Row(q[i])]} :
     /\ isLoading \/ banners # rows
     /\ banners' = rows
     /\ rowOpen' = [id \in BannerId |-> id \in RowIds(rows) /\ rowOpen[id]]
     /\ editValues' = [id \in BannerId |->
                         IF id \in RowIds(rows) /\ rowOpen[id]
                           THEN ResetOnSnapshot(id, rows) ELSE NoData]
     /\ editLoading' = [id \in BannerId |->
                          id \in RowIds(rows) /\ editLoading[id]]
     /\ confirmOpen' = [id \in BannerId |->
                          id \in RowIds(rows) /\ confirmOpen[id]]
  /\ isLoading' = FALSE
  /\ UNCHANGED <<accountOnlyVars, firestore, clock, bannerStore, addVars,
                 noteVars, editPhase, editData, deletePhase>>

\* <Dialog open={open} onOpenChange={setOpen}> of the add dialog.  A dialog
\* that opens mounts a fresh BannerForm; reopening is tracked once the
\* previous form's onSubmit has finished.
OpenAddDialog ==
  /\ ~addOpen
  /\ addPhase = "none"
  /\ addOpen' = TRUE
  /\ addLoading' = FALSE
  /\ addErrors' = {}
  /\ UNCHANGED <<accountOnlyVars, firestore, clock, bannerStore, banners,
                 isLoading, addPhase, addData, noteVars, editVars, deleteVars>>

\* Cancel, Escape or a click outside; it is never disabled.
CloseAddDialog ==
  /\ addOpen
  /\ addOpen' = FALSE
  /\ addLoading' = FALSE
  /\ addErrors' = {}
  /\ UNCHANGED <<accountOnlyVars, firestore, clock, bannerStore, banners,
                 isLoading, addPhase, addData, noteVars, editVars, deleteVars>>

\* handleSubmit(onSubmit): the resolver rejects the values.
AddRejected(v) ==
  /\ addOpen /\ ~addLoading /\ addPhase = "none"
  /\ bannerSchema(v) # {}
  /\ addErrors' = bannerSchema(v)
  /\ UNCHANGED <<accountOnlyVars, firestore, clock, bannerStore, banners,
                 isLoading, addOpen, addLoading, addPhase, addData,
                 noteVars, editVars, deleteVars>>

\* A banner handler ended, having emitted n notifications.
Ended(op, n) ==
  /\ adminLastOp' = op
  /\ adminNotes' = n

\* BannerForm.onSubmit without a banner, up to its await.
onSubmitAdd(v) ==
  /\ addOpen /\ ~addLoading /\ addPhase = "none"
  /\ bannerSchema(v) = {}
  /\ addErrors' = {}
  /\ IF firestore
       THEN /\ addLoading' = TRUE
            /\ addPhase' = "call"
            /\ addData' = BannerFormData(v)
            /\ UNCHANGED <<adminLastOp, adminNotes>>
       ELSE /\ Ended("add", 0)                   \* if (!firestore) return;
            /\ UNCHANGED <<addLoading, addPhase, addData>>
  /\ UNCHANGED <<accountOnlyVars, firestore, clock, bannerStore, banners,
                 isLoading, addOpen, adminToast, editVars, deleteVars>>

BannerAddedToast == Toast("default", "Banner added successfully", Undefined)

\* Mutant: the failure is reported without the error's message.
BannerErrorToast_noDescription(error) ==
  Toast("destructive", "Error saving banner", Undefined)

BannerErrorToast(error) ==
  Toast("destructive", "Error saving banner", error.message)

\* addDoc returns: the store generated an id (one never used before) and
\* kept the record, or failed.
AddReturnIn(ids) ==
  /\ addPhase = "call"
  /\ \/ \E id \in ids :
          /\ bannerStore[id] = Absent
          /\ bannerStore' = [bannerStore EXCEPT ![id] =
                               Doc(NewBannerDoc(addData, clock))]
          /\ clock' = Tick
          /\ adminToast' = BannerAddedToast
          /\ addOpen' = FALSE                    \* onFinished()
     \/ /\ adminToast' = BannerErrorToast(StoreError)
        /\ UNCHANGED <<bannerStore, clock, addOpen>>
  /\ Ended("add", 1)
  /\ addLoading' = FALSE
  /\ addPhase' = "none"
  /\ addData' = NoData
  /\ UNCHANGED <<accountOnlyVars, firestore, banners, isLoading, addErrors,
                 editVars, deleteVars>>

AddReturn == AddReturnIn(BannerId)

(* ------------------------------------------------------------------ *)
(* BannerRow: the delete confirmation and handleDelete                 *)
(* ------------------------------------------------------------------ *)
\* A deleted document; its id is not generated again.
Deleted == [exists |-> FALSE, deleted |-> TRUE]

NotFoundError ==
  [code |-> "not-found", message |-> "No document to update"]

\* <AlertDialogTrigger>: tracked once the row's previous delete has ended.
OpenDeleteConfirm(id) ==
  /\ id \in RowIds(banners)
  /\ ~confirmOpen[id]
  /\ deletePhase[id] = "none"
  /\ confirmOpen' = [confirmOpen EXCEPT ![id] = TRUE]
  /\ UNCHANGED <<accountOnlyVars, firestore, clock, bannerStore, banners,
                 isLoading, addVars, noteVars, editVars, deletePhase>>

\* <AlertDialogCancel>
CancelDelete(id) ==
  /\ confirmOpen[id]
  /\ confirmOpen' = [confirmOpen EXCEPT ![id] = FALSE]
  /\ UNCHANGED <<accountOnlyVars, firestore, clock, bannerStore, banners,
                 isLoading, addVars, noteVars, editVars, deletePhase>>

\* Mutant: the trash button calls handleDelete without the dialog.
DeleteConfirmed_never(id) == id \in RowIds(banners)

\* handleDelete is the onClick of <AlertDialogAction>, inside the dialog.
DeleteConfirmed(id) == confirmOpen[id]

\* handleDelete up to its await; <AlertDialogAction> closes the dialog.
handleDelete(id) ==
  /\ DeleteConfirmed(id)
  /\ deletePhase[id] = "none"
  /\ confirmOpen' = [confirmOpen EXCEPT ![id] = FALSE]
  /\ IF firestore
       THEN /\ deletePhase' = [deletePhase EXCEPT ![id] = "call"]
            /\ UNCHANGED <<adminLastOp, adminNotes>>
       ELSE /\ Ended("delete", 0)                \* if (!firestore) return;
            /\ UNCHANGED deletePhase
  /\ UNCHANGED <<accountOnlyVars, firestore, clock, bannerStore, banners,
                 isLoading, addVars, adminToast, editVars>>

BannerDeletedToast == Toast("default", "Banner deleted", Undefined)

DeleteErrorToast(error) ==
  Toast("destructive", "Error deleting banner", error.message)

\* deleteDoc returns.
DeleteReturn(id) ==
  /\ deletePhase[id] = "call"
  /\ \/ /\ bannerStore' = [bannerStore EXCEPT ![id] = Deleted]
        /\ adminToast' = BannerDeletedToast
     \/ /\ adminToast' = DeleteErrorToast(StoreError)
        /\ UNCHANGED bannerStore
  /\ Ended("delete", 1)
  /\ deletePhase' = [deletePhase EXCEPT ![id] = "none"]
  /\ UNCHANGED <<accountOnlyVars, firestore, clock, banners, isLoading,
                 addVars, editVars, confirmOpen>>

BannerInputs ==
  [title : {"", "Sale"},
   subtitle : {""},
   imageUrl : {"not a url", "https://x.com/a.png"},
   ctaLabel : {""},
   ctaLink : {""},
   isActive : BOOLEAN,
   sortOrder : {"", "1", "1.5", "abc"}]

BannerNext ==
  \/ BannersSnapshot
  \/ OpenAddDialog
  \/ CloseAddDialog
  \/ \E v \in BannerInputs : AddRejected(v)
  \/ \E v \in BannerInputs : onSubmitAdd(v)
  \/ AddReturn

BannerSpec == Init /\ [][BannerNext]_vars

(* ------------------------------------------------------------------ *)
(* BannerRow: the edit dialog and its BannerForm                       *)
(* ------------------------------------------------------------------ *)
\* <Dialog open={open} onOpenChange={setOpen}> of a row: the dialog mounts
\* a BannerForm on the row's `banner`; reopening is tracked once the
\* previous form's onSubmit has finished.
OpenEditDialog(id) ==
  /\ id \in RowIds(banners)
  /\ ~rowOpen[id]
  /\ editPhase[id] = "none"
  /\ rowOpen' = [rowOpen EXCEPT ![id] = TRUE]
  /\ editValues' = [editValues EXCEPT ![id] = FormValues(RowOf(banners, id))]
  /\ editLoading' = [editLoading EXCEPT ![id] = FALSE]
  /\ UNCHANGED <<accountOnlyVars, firestore, clock, bannerStore, banners,
                 isLoading, addVars, noteVars, editPhase, editData,
                 deleteVars>>

\* Cancel, Escape or a click outside: the form unmounts.
CloseEditDialog(id) ==
  /\ rowOpen[id]
  /\ rowOpen' = [rowOpen EXCEPT ![id] = FALSE]
  /\ editValues' = [editValues EXCEPT ![id] = NoData]
  /\ editLoading' = [editLoading EXCEPT ![id] = FALSE]
  /\ UNCHANGED <<accountOnlyVars, firestore, clock, bannerStore, banners,
                 isLoading, addVars, noteVars, editPhase, editData,
                 deleteVars>>

\* {...register(field)}: the user changes an input of the open form
\* (tracked while no submission of the form is in flight).
RegisterChange(id, field, x) ==
  /\ rowOpen[id] /\ ~editLoading[id]
  /\ editValues[id][field] # x
  /\ editValues' = [editValues EXCEPT ![id][field] = x]
  /\ UNCHANGED <<accountOnlyVars, firestore, clock, bannerStore, banners,
                 isLoading, addVars, noteVars, rowOpen, editLoading,
                 editPhase, editData, deleteVars>>

\* BannerForm.onSubmit with a banner, up to its await.
onSubmitEdit(id) ==
  /\ rowOpen[id] /\ ~editLoading[id] /\ editPhase[id] = "none"
  /\ bannerSchema(editValues[id]) = {}
  /\ IF firestore
       THEN /\ editLoading' = [editLoading EXCEPT ![id] = TRUE]
            /\ editPhase' = [editPhase EXCEPT ![id] = "call"]
            /\ editData' = [editData EXCEPT ![id] =
                              BannerFormData(editValues[id])]
            /\ UNCHANGED <<adminLastOp, adminNotes>>
       ELSE /\ Ended("edit", 0)                  \* if (!firestore) return;
            /\ UNCHANGED <<editLoading, editPhase, editData>>
  /\ UNCHANGED <<accountOnlyVars, firestore, clock, bannerStore, banners,
                 isLoading, addVars, adminToast, rowOpen, editValues,
                 deleteVars>>

BannerUpdatedToast ==
  Toast("default", "Banner updated successfully", Undefined)

\* updateDoc(bannerRef, { ...data, updatedAt: serverTimestamp() }): the
\* fields named are replaced, the others stay.
UpdatedFields(fields, d, now) == Spread(fields, Spread(d, [updatedAt |-> now]))

\* What a failing updateDoc can answer.
UpdateErrors(id) ==
  {StoreError} \cup {e \in {NotFoundError} : ~bannerStore[id].exists}

\* updateDoc returns.
EditReturn(id) ==
  /\ editPhase[id] = "call"
  /\ \/ /\ bannerStore[id].exists
        /\ bannerStore' = [bannerStore EXCEPT ![id].fields =
                             UpdatedFields(@, editData[id], clock)]
        /\ clock' = Tick
        /\ adminToast' = BannerUpdatedToast
        /\ rowOpen' = [rowOpen EXCEPT ![id] = FALSE]         \* onFinished()
        /\ editValues' = [editValues EXCEPT ![id] = NoData]
     \/ /\ \E e \in UpdateErrors(id) : adminToast' = BannerErrorToast(e)
        /\ UNCHANGED <<bannerStore, clock, rowOpen, editValues>>
  /\ Ended("edit", 1)
  /\ editLoading' = [editLoading EXCEPT ![id] = FALSE]
  /\ editPhase' = [editPhase EXCEPT ![id] = "none"]
  /\ editData' = [editData EXCEPT ![id] = NoData]
  /\ UNCHANGED <<accountOnlyVars, firestore, banners, isLoading, addVars,
                 deleteVars>>

(* ------------------------------------------------------------------ *)
(* The rows of the banner page                                         *)
(* ------------------------------------------------------------------ *)
\* {banners?.map((banner) => <BannerRow key={banner.id} .../>)}
RenderedRows == [i \in DOMAIN banners |-> banners[i].id]

\* The banners the rows of these specifications belong to.
RowSample == {id \in BannerId : id <= 2}

\* The submission that creates them.
AddSample ==
  [title : {"Sale"}, subtitle : {""}, imageUrl : {"https://x.com/a.png"},
   ctaLabel : {""}, ctaLink : {""}, isActive : {TRUE}, sortOrder : {"1"}]

\* What the user types into an edit form.
EditSample == [sortOrder |-> {"0", "1"}]

AddStep ==
  \/ BannersSnapshot
  \/ OpenAddDialog
  \/ \E v \in AddSample : onSubmitAdd(v)
  \/ AddReturnIn(RowSample)

DeleteStep(id) ==
  \/ OpenDeleteConfirm(id)
  \/ CancelDelete(id)
  \/ handleDelete(id)
  \/ DeleteReturn(id)

EditStep(id) ==
  \/ OpenEditDialog(id)
  \/ CloseEditDialog(id)
  \/ \E field \in DOMAIN EditSample :
       \E x \in EditSample[field] : RegisterChange(id, field, x)
  \/ onSubmitEdit(id)
  \/ EditReturn(id)

DeleteNext ==
  \/ AddStep
  \/ \E id \in RowSample : DeleteStep(id)

DeleteSpec == Init /\ [][DeleteNext]_vars

EditNext ==
  \/ AddStep
  \/ \E id \in RowSample : EditStep(id)

EditSpec == Init /\ [][EditNext]_vars

(* ------------------------------------------------------------------ *)
(* Suggestion flow: suggestCompatibleProducts                          *)
(* ------------------------------------------------------------------ *)
MaxCart == 2

CartItem ==
  {[name |-> "RAM 8GB", description |-> "DDR4 SODIMM"],
   [name |-> "SSD", description |-> ""]}

CartLists == UNION {[1..n -> CartItem] : n \in 0..MaxCart}

\* SuggestCompatibleProductsInputSchema: both fields are optional.
SuggestInputs ==
  {Spread(c, r) :
     c \in {<<>>} \cup {[cartItems |-> l] : l \in CartLists},
     r \in {<<>>} \cup {[requirements |-> x] :
                          x \in {"", "for Dell Latitude 5490"}}}

\* Mutant: {{#if}} tests its argument as JavaScript does, where [] is truthy.
HandlebarsIf_js(rec, k) == k \in DOMAIN rec

\* {{#if x}}: undefined, "" and the empty list take the {{else}} branch.
HandlebarsIf(rec, k) ==
  k \in DOMAIN rec /\ Len(rec[k]) # 0

\* {{x}}: an undefined value renders as the empty string.
Interpolate(rec, k) == IF k \in DOMAIN rec THEN rec[k] ELSE ""

\* The two data-dependent parts of the prompt template: the lines under
\* 'Cart Items:' (indentation dropped) and the text after 'Requirements: '.
RenderPrompt(input) ==
  [cart |->
     IF HandlebarsIf(input, "cartItems")
       THEN [i \in 1..Len(input.cartItems) |->
               "- " \o Interpolate(input.cartItems[i], "name") \o ": "
                    \o Interpolate(input.cartItems[i], "description")]
       ELSE <<"No items in cart.">>,
   requirements |-> Interpolate(input, "requirements")]

SuggestionLists == {<<>>, <<"RAM 16GB">>, <<"SSD 1TB", "RAM 16GB">>,
                    <<"RAM 16GB", "RAM 16GB">>}

\* What `await prompt(input)` can do: throw, or answer with an output that
\* is null, an object of another shape, or a conforming object.
PromptOutcomes ==
  {[kind |-> "error", message |-> "model unavailable"],
   [kind |-> "null"],
   [kind |-> "object", text |-> "RAM 16GB"]}
  \cup {[kind |-> "object", suggestions |-> l] : l \in SuggestionLists}

\* SuggestCompatibleProductsOutputSchema
Conforms(r) == r.kind = "object" /\ "suggestions" \in DOMAIN r

\* Mutant: a failed call is answered with an empty list.
FlowResult_fallback(r) ==
  IF Conforms(r)
    THEN [kind |-> "value", value |-> [suggestions |-> r.suggestions]]
    ELSE [kind |-> "value", value |-> [suggestions |-> <<>>]]

\* const {output} = await prompt(input); return output!;  An exception of
\* the call propagates; `!` has no effect at run time, and the flow's
\* outputSchema rejects what does not conform.
FlowResult(r) ==
  IF Conforms(r)
    THEN [kind |-> "value", value |-> [suggestions |-> r.suggestions]]
    ELSE [kind |-> "error",
          message |-> IF r.kind = "error" THEN r.message
                      ELSE "Schema validation failed"]

suggestCompatibleProducts(input) ==
  /\ flowPhase # "call"
  /\ flowPhase' = "call"
  /\ flowInput' = input
  /\ flowPrompt' = RenderPrompt(input)
  /\ modelCalls' = 1
  /\ flowOutput' = NoData
  /\ flowResult' = NoData
  /\ UNCHANGED <<accountVars, bannerVars>>

PromptReturn ==
  /\ flowPhase = "call"
  /\ \E r \in PromptOutcomes :
       /\ flowOutput' = r
       /\ flowResult' = FlowResult(r)
       /\ flowPhase' = IF FlowResult(r).kind = "value"
                         THEN "resolved" ELSE "rejected"
  /\ UNCHANGED <<flowInput, flowPrompt, modelCalls, accountVars, bannerVars>>

SuggestNext ==
  \/ \E input \in SuggestInputs : suggestCompatibleProducts(input)
  \/ PromptReturn

SuggestSpec == Init /\ [][SuggestNext]_vars

(* ================================================================== *)
(* Properties                                                          *)
(* ================================================================== *)
SignInOps == {"signup", "google"}

\* C1: when the profile document of the uid exists at the time handleUserDoc
\* reads it, the call writes nothing: the store is the same after the step,
\* and the handler does not go on to setDoc.
C1_ExistingProfileUntouched ==
  [][\A t \in Tab, op \in SignInOps :
       ( /\ phase[t][op] = "getDoc"
         /\ phase'[t][op] # "getDoc"
         /\ users[user[t][op].uid].exists )
       => /\ users' = users
          /\ phase'[t][op] # "setDoc"]_vars

\* A federated sign-in has completed on a profile an administrator made.
C1_Witness ==
  /\ firestore
  /\ session["t1"] = "u1"
  /\ toast["t1"].title = "Successfully signed in with Google!"
  /\ users["u1"].exists
  /\ users["u1"].fields.name = "Provisioned"
  /\ users["u1"].fields.role = "admin"

\* C2: when handleUserDoc finds no profile document it never completes
\* without writing, and the document its setDoc leaves has role 'customer'
\* and the uid and email of the user, whatever name and phone the caller
\* passed.
C2_AbsentProfileCreatedAsCustomer ==
  [][\A t \in Tab, op \in SignInOps :
       /\ ( /\ phase[t][op] = "getDoc"
            /\ phase'[t][op] # "getDoc"
            /\ ~users[user[t][op].uid].exists )
          => /\ route'[t] = "/account"
             /\ phase'[t][op] = "none" => toast'[t].variant = "destructive"
       /\ ( /\ phase[t][op] = "setDoc"
            /\ phase'[t][op] = "none"
            /\ route'[t] = "/" )
          => LET u == user[t][op] IN
             /\ users'[u.uid].exists
             /\ users'[u.uid].fields.role = "customer"
             /\ users'[u.uid].fields.uid = u.uid
             /\ users'[u.uid].fields.email = u.email
             /\ users'[u.uid].fields.createdAt = clock]_vars

\* A signup has created the profile with the name it was given.
C2_Witness ==
  /\ toast["t1"].title = "Successfully signed up!"
  /\ users["u1"].exists
  /\ users["u1"].fields.name = "Ann"
  /\ users["u1"].fields.phone = "9876543210"
  /\ users["u1"].fields.role = "customer"

\* C3: once a profile document exists with some role, no step of a sign-in
\* handler in any tab changes that role.
C3_RoleNeverOverwritten ==
  [][\A u \in Uid :
       (users[u].exists /\ phase' # phase)
       => /\ users'[u].exists
          /\ users'[u].fields.role = users[u].fields.role]_vars

\* C4: values whose password differs from the confirmation carry an error
\* on confirmPassword and no createUserWithEmailAndPassword call is out.
C4_MismatchRejected ==
  \A t \in Tab :
    signupValues[t].password # signupValues[t].confirmPassword
    => /\ "confirmPassword" \in signupErrors[t]
       /\ phase[t]["signup"] = "none"

\* Only the confirmation is wrong in a submitted form.
C4_Witness ==
  /\ signupValues["t1"].password = "secret1"
  /\ signupValues["t1"].confirmPassword = "abc"
  /\ signupErrors["t1"] = {"confirmPassword"}

\* C5: submitted values with agreeToTerms = false carry a validation error
\* and no createUserWithEmailAndPassword call is out.
C5_TermsRequired ==
  \A t \in Tab :
    (signupValues[t] # DefaultSignupValues /\ ~signupValues[t].agreeToTerms)
    => /\ "agreeToTerms" \in signupErrors[t]
       /\ phase[t]["signup"] = "none"

\* Only the terms checkbox is wrong in a submitted form.
C5_Witness ==
  /\ signupValues["t1"].name = "Jo"
  /\ ~signupValues["t1"].agreeToTerms
  /\ signupErrors["t1"] = {"agreeToTerms"}

\* C6: every failed password login emits the notification 'Login Failed' /
\* 'Invalid email or password.' and leaves the route and the form in place.
C6_LoginFailureGeneric ==
  [][\A t \in Tab :
       ( /\ phase[t]["login"] = "call"
         /\ phase'[t]["login"] = "none"
         /\ session'[t] = NoUser )
       => /\ toast'[t] = Toast("destructive", "Login Failed",
                               "Invalid email or password.")
          /\ route'[t] = "/account"
          /\ route[t] = "/account"]_vars

\* A login with the wrong password of an existing account has failed.
C6_Witness ==
  /\ toast["t1"].title = "Login Failed"
  /\ credentials["u1@example.com"] = "secret1"
  /\ session["t1"] = NoUser
  /\ route["t1"] = "/account"

\* C7: at most one of the four operations of a form has a call outstanding,
\* and the in-flight flag is true for as long as one has.
C7_OneOperationInFlight ==
  \A t \in Tab :
    /\ Cardinality(Outstanding(t)) <= 1
    /\ Outstanding(t) # {} => loading[t]

\* A reset is in flight with the dialog open on the login tab.
C7_Witness ==
  /\ Outstanding("t1") = {"reset"}
  /\ loading["t1"]
  /\ showForgotPassword["t1"]

\* C8: a tab that has navigated home with a signed-in user has a profile
\* document for that user.
C8_ProfileExistsAfterSignIn ==
  \A t \in Tab :
    (route[t] = "/" /\ session[t] # NoUser) => users[session[t]].exists

\* C9: a reset that succeeds closes the dialog and confirms; a reset that
\* fails leaves the dialog as it is and reports 'Error' with 'No account
\* found with this email.' for auth/user-not-found and the raw message
\* otherwise.
C9_ResetOutcome ==
  [][\A t \in Tab :
       ( /\ phase[t]["reset"] = "call"
         /\ phase'[t]["reset"] = "none" )
       => LET known == credentials[data[t]["reset"].email] # NoPassword IN
          \/ /\ known
             /\ toast'[t] = Toast("default", "Password Reset Email Sent",
                  "Check your inbox for a link to reset your password.")
             /\ ~showForgotPassword'[t]
          \/ /\ ~known
             /\ toast'[t] = Toast("destructive", "Error",
                                  "No account found with this email.")
             /\ showForgotPassword'[t] = showForgotPassword[t]
          \/ /\ toast'[t] = Toast("destructive", "Error",
                  "Firebase: Error (auth/network-request-failed).")
             /\ showForgotPassword'[t] = showForgotPassword[t]]_vars

\* A reset for an unknown email has failed and the dialog is still open.
C9_Witness ==
  /\ toast["t1"] = Toast("destructive", "Error",
                         "No account found with this email.")
  /\ showForgotPassword["t1"]
  /\ Outstanding("t1") = {}

\* C10: when addDoc is accepted for schema-valid values, exactly one record
\* is added, holding the submitted values (sortOrder as a number) and the
\* server time as createdAt and updatedAt; every other record is as before,
\* the add dialog is closed and 'Banner added successfully' is emitted; and
\* every snapshot delivered lists exactly the stored records with their
\* stored values.
C10_BannerCreated ==
  [][/\ ( /\ addPhase = "call"
          /\ addPhase' = "none"
          /\ adminToast'.variant # "destructive" )
        => /\ \E id \in BannerId :
                /\ ~bannerStore[id].exists
                /\ bannerStore'[id].exists
                /\ LET f == bannerStore'[id].fields IN
                   /\ DOMAIN f = {"title", "subtitle", "imageUrl", "ctaLabel",
                                  "ctaLink", "isActive", "sortOrder",
                                  "createdAt", "updatedAt"}
                   /\ \A k \in DOMAIN addData : f[k] = addData[k]
                   /\ f.title # "" /\ f.sortOrder \in 0..2
                   /\ f.createdAt = clock /\ f.updatedAt = clock
                /\ \A other \in BannerId \ {id} :
                     bannerStore'[other] = bannerStore[other]
           /\ ~addOpen'
           /\ adminToast' = Toast("default", "Banner added successfully",
                                  Undefined)
     /\ (banners' # banners \/ isLoading' # isLoading)
        => /\ {banners'[i].id : i \in DOMAIN banners'} = StoredIds
           /\ Len(banners') = Cardinality(StoredIds)
           /\ \A i \in DOMAIN banners' :
                \A k \in DOMAIN bannerStore[banners'[i].id].fields :
                  banners'[i][k] = bannerStore[banners'[i].id].fields[k]]_vars

\* The list shows the banner 'Sale' with sortOrder 1 next to another one,
\* after the add that created it closed the dialog.
C10_Witness ==
  /\ Len(banners) = 2
  /\ \E i \in DOMAIN banners :
       /\ banners[i].title = "Sale"
       /\ banners[i].imageUrl = "https://x.com/a.png"
       /\ banners[i].sortOrder = 1
       /\ banners[i].createdAt = 1
       /\ banners[i].updatedAt = 1
  /\ ~addOpen
  /\ adminToast.title = "Banner added successfully"

(* C16: in a signup, the profile step starts only once the account has    *)
(* been created; the success notification and the navigation home happen  *)
(* only in the step in which the profile step returns without an error    *)
(* (with a store, the profile document then exists); and a signup that    *)
(* ends otherwise leaves the route alone and reports 'Sign-up Failed'.    *)
C16_SignupOrdering ==
  [][\A t \in Tab :
       LET p == phase[t]["signup"]
           q == phase'[t]["signup"]
           d == data[t]["signup"]
       IN
       /\ (p = "call" /\ q = "getDoc") =>
            /\ credentials'[d.email] = d.password
            /\ session'[t] = UidOf(d.email)
       /\ (q = "setDoc") => p \in {"getDoc", "setDoc"}
       /\ (p # "none" /\ q = "none") =>
            \/ /\ toast'[t] = SuccessToast("signup")
               /\ route'[t] = "/"
               /\ notes'[t] = 1
               /\ credentials'[d.email] = d.password
               /\ IF firestore
                    THEN p \in {"getDoc", "setDoc"}
                         /\ users'[UidOf(d.email)].exists
                    ELSE p = "call"
            \/ /\ toast'[t].variant = "destructive"
               /\ toast'[t].title = "Sign-up Failed"
               /\ notes'[t] = 1
               /\ route'[t] = route[t]
               /\ users' = users
       /\ (p = "none" /\ q # "none") =>
            route'[t] = route[t] /\ toast'[t] = toast[t]
  ]_vars

C16_Witness ==
  /\ firestore
  /\ lastOp["t1"] = "signup" /\ phase["t1"]["signup"] = "none"
  /\ toast["t1"] = SuccessToast("signup")
  /\ route["t1"] = "/"
  /\ users["u1"].exists /\ users["u1"].fields.name = "Ann"

(* C11: handleDelete issues its delete call only from the open          *)
(* confirmation of that banner; a delete that succeeds removes that       *)
(* banner and leaves every other record as it was, and the snapshots      *)
(* delivered afterwards list exactly the stored banners with their        *)
(* stored fields; a delete that fails emits 'Error deleting banner' with  *)
(* the error's message and leaves every record as it was.                 *)
C11_DeleteGated ==
  [][/\ \A id \in BannerId :
          /\ (deletePhase[id] = "none" /\ deletePhase'[id] = "call")
               => confirmOpen[id] /\ bannerStore' = bannerStore
          /\ (deletePhase[id] = "call" /\ deletePhase'[id] = "none")
               => \/ /\ adminToast' = Toast("default", "Banner deleted",
                                            Undefined)
                     /\ ~bannerStore'[id].exists
                     /\ \A other \in BannerId \ {id} :
                          bannerStore'[other] = bannerStore[other]
                  \/ /\ adminToast' = Toast("destructive",
                                            "Error deleting banner",
                                            StoreError.message)
                     /\ bannerStore' = bannerStore
          /\ (bannerStore[id].exists /\ ~bannerStore'[id].exists)
               => deletePhase[id] = "call"
     /\ (banners' # banners \/ isLoading' # isLoading)
          => /\ {banners'[i].id : i \in DOMAIN banners'} = StoredIds
             /\ Len(banners') = Cardinality(StoredIds)
             /\ \A i \in DOMAIN banners' :
                  \A k \in DOMAIN bannerStore[banners'[i].id].fields :
                    banners'[i][k] = bannerStore[banners'[i].id].fields[k]
    ]_vars

\* Banner 1 was deleted after its confirmation; the list shows banner 2
\* alone, as it was stored.
C11_Witness ==
  /\ ~bannerStore[1].exists /\ bannerStore[1] # Absent
  /\ bannerStore[2].exists
  /\ Len(banners) = 1 /\ banners[1].id = 2
  /\ banners[1].title = "Sale" /\ banners[1].sortOrder = 1
  /\ adminToast.title = "Banner deleted"
  /\ deletePhase[1] = "none"

(* C12: while the edit dialog of a banner is open, a step of another      *)
(* banner's dialog, or the snapshot that delivers another banner's saved  *)
(* edit while the banner's own record is the same as before, changes      *)
(* neither the values its form holds nor whether its dialog is open.      *)
C12_RowIndependence ==
  [][\A b \in BannerId :
       ( /\ rowOpen[b]
         /\ b \in RowIds(banners) /\ b \in RowIds(banners')
         /\ RowOf(banners', b) = RowOf(banners, b)
         /\ \E c \in BannerId \ {b} :
                 \/ /\ c \in RowIds(banners) /\ c \in RowIds(banners')
                    /\ RowOf(banners', c) # RowOf(banners, c)
                 \/ rowOpen'[c] # rowOpen[c]
                 \/ editValues'[c] # editValues[c]
                 \/ editPhase'[c] # editPhase[c] )
       => /\ rowOpen'[b] = rowOpen[b]
          /\ editValues'[b] = editValues[b]
    ]_vars

(* C13: the rows are rendered in the order of the snapshot, which is      *)
(* ascending sortOrder and, among equal sortOrder, descending createdAt.  *)
C13_RowOrder ==
  /\ Len(RenderedRows) = Len(banners)
  /\ \A i, j \in DOMAIN RenderedRows :
       i < j =>
         LET a == RowOf(banners, RenderedRows[i])
             b == RowOf(banners, RenderedRows[j])
         IN
         /\ RenderedRows[i] # RenderedRows[j]
         /\ banners[i] = a /\ banners[j] = b
         /\ \/ a.sortOrder < b.sortOrder
            \/ a.sortOrder = b.sortOrder /\ a.createdAt >= b.createdAt

\* Two banners with the same sortOrder: the one created later comes first.
C13_Witness ==
  /\ Len(banners) = 2
  /\ banners[1].sortOrder = banners[2].sortOrder
  /\ banners[1].createdAt > banners[2].createdAt
  /\ banners[1].updatedAt > banners[1].createdAt

(* C14: with no cart items (absent or empty) and no requirements (absent  *)
(* or "") the cart section of the rendered prompt is the single line      *)
(* 'No items in cart.' and the requirements slot is empty; with cart      *)
(* items the section lists each as 'name: description' in input order     *)
(* and has no 'No items in cart.' line.                                   *)
C14_PromptRendering ==
  flowPhase # "idle" =>
    LET in == flowInput
        items == IF "cartItems" \in DOMAIN in THEN in.cartItems ELSE <<>>
        req == IF "requirements" \in DOMAIN in THEN in.requirements ELSE ""
    IN
    /\ (items = <<>> /\ req = "") =>
         /\ flowPrompt.cart = <<"No items in cart.">>
         /\ flowPrompt.requirements = ""
    /\ (items # <<>>) =>
         /\ Len(flowPrompt.cart) = Len(items)
         /\ \A i \in 1..Len(items) :
              /\ flowPrompt.cart[i] =
                   "- " \o items[i].name \o ": " \o items[i].description
              /\ flowPrompt.cart[i] # "No items in cart."

C14_Witness ==
  /\ flowPhase = "call"
  /\ flowInput = [cartItems |-> <<>>, requirements |-> ""]
  /\ flowPrompt.cart = <<"No items in cart.">>

(* C15: an invocation makes one model call; when the call fails or its    *)
(* output is not {suggestions: string[]} the invocation is rejected, and  *)
(* when it conforms the invocation returns that list as it is.            *)
C15_OneCallNoRecovery ==
  /\ flowPhase # "idle" => modelCalls = 1
  /\ flowPhase \in {"resolved", "rejected"} =>
       /\ (flowOutput.kind = "error" \/ flowOutput.kind = "null"
           \/ "suggestions" \notin DOMAIN flowOutput)
            => flowPhase = "rejected" /\ flowResult.kind = "error"
       /\ (flowOutput.kind = "object" /\ "suggestions" \in DOMAIN flowOutput)
            => /\ flowPhase = "resolved"
               /\ flowResult.kind = "value"
               /\ flowResult.value.suggestions = flowOutput.suggestions

C15_Witness ==
  /\ flowPhase = "rejected"
  /\ flowOutput.kind = "null"
  /\ flowResult.kind = "error"
  /\ modelCalls = 1

(* C17: an edit that succeeds replaces the schema's fields by the         *)
(* submitted data and updatedAt by the server time, adds no field, keeps  *)
(* createdAt, touches no other record and closes the dialog; an edit      *)
(* that fails changes no record and leaves the dialog as it is.           *)
C17_EditFrame ==
  [][\A id \in BannerId :
       (editPhase[id] = "call" /\ editPhase'[id] = "none") =>
         \/ /\ adminToast' = Toast("default", "Banner updated successfully",
                                   Undefined)
            /\ bannerStore[id].exists /\ bannerStore'[id].exists
            /\ LET f == bannerStore[id].fields
                   g == bannerStore'[id].fields
               IN
               /\ DOMAIN editData[id] =
                    {"title", "subtitle", "imageUrl", "ctaLabel", "ctaLink",
                     "isActive", "sortOrder"}
               /\ DOMAIN g = DOMAIN editData[id] \cup {"createdAt", "updatedAt"}
               /\ \A k \in DOMAIN editData[id] : g[k] = editData[id][k]
               /\ g.updatedAt = clock
               /\ g.createdAt = f.createdAt
            /\ \A other \in BannerId \ {id} :
                 bannerStore'[other] = bannerStore[other]
            /\ ~rowOpen'[id]
         \/ /\ adminToast'.variant = "destructive"
            /\ bannerStore' = bannerStore
            /\ rowOpen' = rowOpen
    ]_vars

\* Banner 2 was edited to sortOrder 0 next to banner 1: its dialog is
\* closed and its createdAt is the one it was created with.
C17_Witness ==
  /\ bannerStore[1].exists /\ bannerStore[2].exists
  /\ bannerStore[2].fields.sortOrder = 0
  /\ bannerStore[2].fields.createdAt = 1
  /\ bannerStore[2].fields.updatedAt = 2
  /\ bannerStore[1].fields.sortOrder = 1
  /\ bannerStore[1].fields.updatedAt = 0
  /\ ~rowOpen[2] /\ editPhase[2] = "none"
  /\ adminToast.title = "Banner updated successfully"

(* C18: a create or an edit whose write fails leaves its dialog as it     *)
(* was, emits 'Error saving banner' with the error's message, changes no  *)
(* record and clears the form's loading flag; and a form with no write    *)
(* in flight has its flag cleared.                                        *)
C18_WriteFailure ==
  [][/\ (addPhase = "call" /\ addPhase' = "none"
         /\ adminToast'.variant = "destructive")
          => /\ addOpen' = addOpen
             /\ adminToast'.title = "Error saving banner"
             /\ adminToast'.description = StoreError.message
             /\ bannerStore' = bannerStore
             /\ ~addLoading'
     /\ (addPhase = "call" /\ addPhase' = "none"
         /\ adminToast'.variant # "destructive")
          => bannerStore' # bannerStore
     /\ \A id \in BannerId :
          /\ (editPhase[id] = "call" /\ editPhase'[id] = "none"
              /\ adminToast'.variant = "destructive")
               => /\ rowOpen'[id] = rowOpen[id]
                  /\ editValues'[id] = editValues[id]
                  /\ adminToast'.title = "Error saving banner"
                  /\ adminToast'.description
                       \in {StoreError.message, NotFoundError.message}
                  /\ bannerStore' = bannerStore
                  /\ ~editLoading'[id]
          /\ (editPhase[id] = "call" /\ editPhase'[id] = "none"
              /\ adminToast'.variant # "destructive")
               => bannerStore'[id].fields.updatedAt = clock
          /\ editPhase[id] = "none" => ~editLoading[id]
     /\ addPhase = "none" => ~addLoading
    ]_vars

\* An edit of banner 1 failed: its dialog is still open on the values the
\* user typed, and the submit control is enabled.
C18_Witness ==
  /\ adminToast = Toast("destructive", "Error saving banner",
                        StoreError.message)
  /\ adminLastOp = "edit"
  /\ rowOpen[1] /\ editPhase[1] = "none" /\ ~editLoading[1]
  /\ editValues[1].sortOrder = "0"
  /\ bannerStore[1].fields.sortOrder = 1

(* C19: every handler that has ended (login, signup, federated sign-in,   *)
(* password reset, logout; banner create, edit, delete) emitted exactly   *)
(* one notification, which has a title and, when it reports a failure,    *)
(* a description.                                                         *)
C19_EveryOperationNotifies ==
  /\ \A t \in Tab :
       (lastOp[t] # "none" /\ Outstanding(t) = {}) =>
         /\ notes[t] = 1
         /\ toast[t].title # ""
         /\ toast[t].variant = "destructive" =>
              toast[t].description \notin {"", Undefined}
  /\ adminLastOp # "none" =>
       /\ adminNotes = 1
       /\ adminToast.title # ""
       /\ adminToast.variant = "destructive" =>
            adminToast.description \notin {"", Undefined}

(* C20: a form with no call outstanding has its in-flight flag cleared    *)
(* and its submit controls enabled: the account form in each tab, the     *)
(* add form and each edit form.                                           *)
C20_FlagCleared ==
  /\ \A t \in Tab :
       Outstanding(t) = {} => ~loading[t] /\ ~SubmitDisabled(t)
  /\ addPhase = "none" => ~addLoading
  /\ \A id \in BannerId : editPhase[id] = "none" => ~editLoading[id]

\* A login was rejected by the provider: its call has returned and the
\* form is mounted with its flag cleared.
C20_Witness ==
  /\ lastOp["t1"] = "login"
  /\ toast["t1"].title = "Login Failed"
  /\ Outstanding("t1") = {}
  /\ AuthFormMounted("t1")
  /\ ~loading["t1"]

====
